---- MODULE Spec2Model ----
(***************************************************************************)
(* Real-time event distribution of the sliver-gui frontend:                *)
(*   - the notification store (frontend/src/store/notificationStore.ts),   *)
(*   - the useWebSocket hook (unnamed/part_000): connection lifecycle and  *)
(*     the message router handleMessage.                                   *)
(*                                                                         *)
(* Specifications:                                                         *)
(*   SpecInbox  the store driven directly by its callers, filled up to and *)
(*              past its capacity of 100 records;                          *)
(*   Spec       the hook: mount/unmount, connect(), disconnect(), storage  *)
(*              events, timers and the socket's open/close events.         *)
(*   SpecEvents the hook of a signed-in user while the server emits        *)
(*              events that the router handles;                            *)
(*   SpecStore  the store with every setting, a few records, restarts;     *)
(*   SpecRouter the router on one open connection, frames of every shape;  *)
(*   SpecSend   the hook's connection lifecycle with a caller that sends.  *)
(***************************************************************************)
EXTENDS Integers, Sequences, FiniteSets, TLC

(***************************************************************************)
(* Bounds of the model (not program constants).                            *)
(***************************************************************************)
\* ids the store may issue in SpecInbox: two past the capacity
MaxAdds == 102
\* sockets the hook may create in one run of Spec
MaxSockets == 3
\* sockets the hook may create in one run of SpecEvents
MaxEventSockets == 2
\* events the server emits in one run of SpecEvents
MaxEvents == 2
\* send() calls a caller makes in one run of SpecSend
MaxSends == 2
\* frames the server sends in one run of SpecRouter
MaxFrames == 2
\* ids the store may issue in SpecStore
MaxStoreAdds == 2
\* setTimeout(connect, 100) callbacks that may be pending at once
MaxDelayed == 1
\* UseWebSocketOptions.reconnectAttempts, the retry budget the caller passes
\* (part_000:21 defaults it to 5): instantiated small so that a run can
\* exhaust it within MaxSockets sockets
reconnectAttempts == 1

(***************************************************************************)
(* Program constants.                                                      *)
(***************************************************************************)
\* notificationStore.ts:112  .slice(0, 100)
Capacity == 100

\* part_000:182, 205  the normal-closure status code
NormalClosure == 1000

\* status codes a close event may carry: normal closure, and 1006 (abnormal
\* closure) standing for every other code
CloseCodes == {NormalClosure, 1006}

Categories == {"session", "beacon", "listener", "info", "warning", "error"}

VARIABLES
  \* ---- notificationStore.ts: NotificationState
  notifications,   \* Notification[], most recent first
  settings,        \* NotificationSettings
  unreadCount,     \* number
  effects,         \* the sound and desktop calls of the latest store operation, in order
  thrown,          \* whether the latest store operation threw to its caller
  nextId,          \* stands for `${Date.now()}-${random}`: a fresh id per record
  \* ---- part_000: useWebSocket
  wsRef,                 \* wsRef.current: a socket id, 0 for null
  reconnectCountRef,     \* reconnectCountRef.current
  reconnectTimeoutRef,   \* reconnectTimeoutRef.current: a timer id, 0 for null
  isConnected,           \* useState(false)
  lastMessage,           \* useState(null): <<m>> for the message decoded last, << >> for null
  mounted,               \* "init" before the effects ran, "mounted", "unmounted"
  \* ---- the hook's environment
  token,           \* localStorage.getItem('token'): a credential, 0 for null
  sockets,         \* every WebSocket the hook created, by id
  timers,          \* ids of the pending setTimeout(() => connect(), reconnectInterval)
  delayed,         \* number of pending setTimeout(connect, 100)
  nextEvent,       \* the id of the next event the server emits
  toasts,          \* the toast() calls made so far, in order
  invalidated,     \* the queryClient.invalidateQueries() calls made so far, in order
  sent,            \* the number of send() calls made so far
  written,         \* the WebSocket.send() calls made so far: [sock, payload], in order
  \* ---- observation
  last,            \* the operation that ran last: [op, arg]
  stopped,         \* disconnect() ran and no caller asked to connect since
  exhausted        \* a close was handled with the budget spent, no connect() call since

storeVars == <<notifications, settings, unreadCount, effects, thrown, nextId>>

eventVars == <<lastMessage, toasts, invalidated, nextEvent, sent, written>>

hookVars == <<wsRef, reconnectCountRef, reconnectTimeoutRef, isConnected, mounted,
              token, sockets, timers, delayed, last, stopped, exhausted>>

\* the hook and its environment without the observation of the last operation
hookRest == <<wsRef, reconnectCountRef, reconnectTimeoutRef, isConnected, mounted,
              token, sockets, timers, delayed, stopped, exhausted>>

vars == <<notifications, settings, unreadCount, effects, thrown, nextId,
          wsRef, reconnectCountRef, reconnectTimeoutRef, isConnected, lastMessage,
          mounted, token, sockets, timers, delayed, nextEvent, toasts, invalidated,
          sent, written, last, stopped, exhausted>>

(***************************************************************************)
(* NotificationStore                                                       *)
(***************************************************************************)
DefaultSettings ==
  [soundEnabled |-> TRUE, desktopEnabled |-> FALSE, showNewSessions |-> TRUE,
   showNewBeacons |-> TRUE, showListenerEvents |-> TRUE]

InitStore ==
  /\ notifications = << >>
  /\ settings = DefaultSettings
  /\ unreadCount = 0
  /\ effects = << >>
  /\ thrown = FALSE
  /\ nextId = 1

\* slice(-k) in place of slice(0, k): keeps the last k elements
SliceFromEnd(s, k) == SubSeq(s, (IF Len(s) < k THEN 1 ELSE Len(s) - k + 1), Len(s))

\* Array.prototype.slice(0, k)
Slice(s, k) == SubSeq(s, 1, IF Len(s) < k THEN Len(s) ELSE k)

\* Math.max(0, n)
Max0(n) == IF n < 0 THEN 0 ELSE n

\* notifications.find((n) => n.id === id): the index of the first match, 0 if none
Find(id) ==
  IF \E i \in 1..Len(notifications) : notifications[i].id = id
  THEN CHOOSE i \in 1..Len(notifications) :
         /\ notifications[i].id = id
         /\ \A j \in 1..(i - 1) : notifications[j].id # id
  ELSE 0

\* the early return for beacons (line 107) left out
AdmittedBeaconUngated(n) ==
  /\ ~(n.type = "session" /\ ~settings.showNewSessions)
  /\ ~(n.type = "listener" /\ ~settings.showListenerEvents)

\* a fourth early return: error candidates dropped while showListenerEvents is off
AdmittedErrorGated(n) ==
  /\ ~(n.type = "session" /\ ~settings.showNewSessions)
  /\ ~(n.type = "beacon" /\ ~settings.showNewBeacons)
  /\ ~(n.type \in {"listener", "error"} /\ ~settings.showListenerEvents)

\* the three early returns of addNotification
Admitted(n) ==
  /\ ~(n.type = "session" /\ ~settings.showNewSessions)
  /\ ~(n.type = "beacon" /\ ~settings.showNewBeacons)
  /\ ~(n.type = "listener" /\ ~settings.showListenerEvents)

\* the desktop call nested in the `if (settings.soundEnabled)` block
TriggeredDesktopWithinSound ==
  IF settings.soundEnabled
  THEN <<"sound">> \o (IF settings.desktopEnabled THEN <<"desktop">> ELSE << >>)
  ELSE << >>

\* the sound and desktop calls at the end of addNotification
Triggered ==
  (IF settings.soundEnabled THEN <<"sound">> ELSE << >>)
    \o (IF settings.desktopEnabled THEN <<"desktop">> ELSE << >>)

\* What the platform does with the sound: it plays, play() is rejected
\* (autoplay blocked), or Audio is unsupported and the Web Audio fallback
\* runs or fails.
SoundOutcomes == {"played", "blocked", "unsupported"}

\* What the platform does with the desktop notification once desktopEnabled
\* is on: permission is granted and it is displayed, permission is not
\* granted (or the API is absent), or permission is granted and the
\* Notification constructor throws.
DesktopOutcomes == {"shown", "ungranted", "failing"}

\* Whether the call throws.  Every failure is caught: the outer try, the
\* rejected play() promise's catch, and the try around the fallback.
playNotificationSound(s) == FALSE

\* Whether the call throws.  The permission test skips the constructor; the
\* constructor itself runs outside any try.
showDesktopNotification(d) == d = "failing"

\* `[...state.notifications, newNotification]` in place of
\* `[newNotification, ...state.notifications]`
addNotificationAtEnd(n) ==
  LET newNotification ==
        [id |-> nextId, type |-> n.type, read |-> FALSE, data |-> n.data]
  IN IF ~Admitted(n)
     THEN /\ effects' = << >>
          /\ thrown' = FALSE
          /\ UNCHANGED <<notifications, settings, unreadCount, nextId>>
     ELSE /\ notifications' = Slice(notifications \o <<newNotification>>, Capacity)
          /\ unreadCount' = unreadCount + 1
          /\ effects' = Triggered
          /\ \E s \in SoundOutcomes, d \in DesktopOutcomes :
               thrown' = (\/ settings.soundEnabled /\ playNotificationSound(s)
                          \/ settings.desktopEnabled /\ showDesktopNotification(d))
          /\ nextId' = nextId + 1
          /\ UNCHANGED settings

\* n: the candidate, [type, data] (title and message are display strings
\* derived from data and are left out; so is the timestamp).
addNotification(n) ==
  LET newNotification ==
        [id |-> nextId, type |-> n.type, read |-> FALSE, data |-> n.data]
  IN IF ~Admitted(n)
     THEN /\ effects' = << >>
          /\ thrown' = FALSE
          /\ UNCHANGED <<notifications, settings, unreadCount, nextId>>
     ELSE /\ notifications' = Slice(<<newNotification>> \o notifications, Capacity)
          /\ unreadCount' = unreadCount + 1
          /\ effects' = Triggered
          /\ \E s \in SoundOutcomes, d \in DesktopOutcomes :
               thrown' = (\/ settings.soundEnabled /\ playNotificationSound(s)
                          \/ settings.desktopEnabled /\ showDesktopNotification(d))
          /\ nextId' = nextId + 1
          /\ UNCHANGED settings

\* `if (notification)` in place of `if (notification && !notification.read)`
markAsReadAnyRecord(id) ==
  LET k == Find(id)
  IN /\ IF k # 0
        THEN /\ notifications' =
                  [i \in 1..Len(notifications) |->
                     IF notifications[i].id = id
                     THEN [notifications[i] EXCEPT !.read = TRUE]
                     ELSE notifications[i]]
             /\ unreadCount' = Max0(unreadCount - 1)
        ELSE UNCHANGED <<notifications, unreadCount>>
     /\ effects' = << >>
     /\ thrown' = FALSE
     /\ UNCHANGED <<settings, nextId>>

markAsRead(id) ==
  LET k == Find(id)
  IN /\ IF k # 0 /\ ~notifications[k].read
        THEN /\ notifications' =
                  [i \in 1..Len(notifications) |->
                     IF notifications[i].id = id
                     THEN [notifications[i] EXCEPT !.read = TRUE]
                     ELSE notifications[i]]
             /\ unreadCount' = Max0(unreadCount - 1)
        ELSE UNCHANGED <<notifications, unreadCount>>
     /\ effects' = << >>
     /\ thrown' = FALSE
     /\ UNCHANGED <<settings, nextId>>

markAllAsRead ==
  /\ notifications' =
       [i \in 1..Len(notifications) |-> [notifications[i] EXCEPT !.read = TRUE]]
  /\ unreadCount' = 0
  /\ effects' = << >>
  /\ thrown' = FALSE
  /\ UNCHANGED <<settings, nextId>>

\* the counter forgotten: only the list is filtered
clearNotificationNeverDecrement(id) ==
  /\ notifications' = SelectSeq(notifications, LAMBDA n : n.id # id)
  /\ effects' = << >>
  /\ thrown' = FALSE
  /\ UNCHANGED <<settings, unreadCount, nextId>>

\* the test of the read flag left out: any record found decrements
clearNotificationAlwaysDecrement(id) ==
  LET k == Find(id)
  IN /\ notifications' = SelectSeq(notifications, LAMBDA n : n.id # id)
     /\ unreadCount' = IF k # 0 THEN Max0(unreadCount - 1) ELSE unreadCount
     /\ effects' = << >>
     /\ thrown' = FALSE
     /\ UNCHANGED <<settings, nextId>>

clearNotification(id) ==
  LET k == Find(id)
  IN /\ notifications' = SelectSeq(notifications, LAMBDA n : n.id # id)
     /\ unreadCount' = IF k # 0 /\ ~notifications[k].read
                       THEN Max0(unreadCount - 1)
                       ELSE unreadCount
     /\ effects' = << >>
     /\ thrown' = FALSE
     /\ UNCHANGED <<settings, nextId>>

clearAll ==
  /\ notifications' = << >>
  /\ unreadCount' = 0
  /\ effects' = << >>
  /\ thrown' = FALSE
  /\ UNCHANGED <<settings, nextId>>

\* merged into the initial settings instead of the current ones
updateSettingsOverDefaults(newSettings) ==
  /\ settings' = [k \in DOMAIN settings |->
                    IF k \in DOMAIN newSettings THEN newSettings[k] ELSE DefaultSettings[k]]
  /\ effects' = << >>
  /\ thrown' = FALSE
  /\ UNCHANGED <<notifications, unreadCount, nextId>>

\* newSettings: a partial record of settings; { ...settings, ...newSettings }
updateSettings(newSettings) ==
  /\ settings' = [k \in DOMAIN settings |->
                    IF k \in DOMAIN newSettings THEN newSettings[k] ELSE settings[k]]
  /\ effects' = << >>
  /\ thrown' = FALSE
  /\ UNCHANGED <<notifications, unreadCount, nextId>>

\* the state of the store that persist() sees
State ==
  [notifications |-> notifications, settings |-> settings, unreadCount |-> unreadCount]

\* the state the store is created with
InitialState ==
  [notifications |-> << >>, settings |-> DefaultSettings, unreadCount |-> 0]

\* partialize left out: persist() stores the whole state
partializeWholeState(state) == state

\* partialize: the part of the state persist() writes to localStorage
partialize(state) == [settings |-> state.settings]

\* persist()'s merge at start-up: { ...currentState, ...persistedState }
Rehydrate(persistedState, currentState) ==
  [k \in DOMAIN currentState |->
     IF k \in DOMAIN persistedState THEN persistedState[k] ELSE currentState[k]]

\* the page is reloaded: the store is created anew and rehydrated from what
\* persist() stored.  persist() stores partialize(state) at every set(), and
\* the state changes only by set(), so the item stored is that of the
\* current state.
Restart ==
  LET loaded == Rehydrate(partialize(State), InitialState)
  IN /\ notifications' = loaded.notifications
     /\ settings' = loaded.settings
     /\ unreadCount' = loaded.unreadCount
     /\ effects' = << >>
     /\ thrown' = FALSE
     /\ UNCHANGED nextId

(***************************************************************************)
(* useWebSocket: connection lifecycle.                                     *)
(*                                                                         *)
(* A socket is [rs, est, q]: its readyState, whether its handshake         *)
(* completed (its open event fired), and the frames the server sent on it  *)
(* that the browser has not yet delivered.  The credential in the URL of   *)
(* the socket an operation created is kept in last.arg.  The               *)
(* browser fires a socket's events as tasks of the event loop, one at a    *)
(* time; the handlers the hook attached in connect() stay attached for the *)
(* socket's whole life (the hook never detaches them).                     *)
(***************************************************************************)
\* the credentials localStorage may hold: the one of the first sign-in and a
\* later one (a refreshed token, another account)
Credentials == {1, 2}

ClosedSocket == [rs |-> "CLOSED", est |-> FALSE, q |-> << >>]

InitHook ==
  /\ wsRef = 0
  /\ reconnectCountRef = 0
  /\ reconnectTimeoutRef = 0
  /\ isConnected = FALSE
  /\ mounted = "init"
  /\ sockets = << >>
  /\ timers = {}
  /\ delayed = 0
  /\ last = [op |-> "init", arg |-> 0]
  /\ stopped = FALSE
  /\ exhausted = FALSE
  /\ lastMessage = << >>
  /\ nextEvent = 1
  /\ toasts = << >>
  /\ invalidated = << >>
  /\ sent = 0
  /\ written = << >>

\* setIsConnected(v): React drops a state update of an unmounted component
setIsConnected(v) == isConnected' = IF mounted = "unmounted" THEN isConnected ELSE v

\* the token read once, at the first sign-in, instead of at every call
getWebSocketUrlFirstCredential ==
  CHOOSE c \in Credentials : \A d \in Credentials : c <= d

\* getWebSocketUrl(): the URL embeds the credential localStorage holds now
getWebSocketUrl == token

\* the id setTimeout returns: one no pending timer has
FreshTimer == CHOOSE t \in 1..(Cardinality(timers) + 1) : t \notin timers

\* the credential in the URL of the socket this step created, 0 if it created none
Created == IF Len(sockets') > Len(sockets) THEN getWebSocketUrl ELSE 0

\* the early return for an open socket (lines 151-153) left out
connectWithoutOpenCheck ==
  IF token = 0
  THEN UNCHANGED <<wsRef, sockets>>
  ELSE /\ Len(sockets) < MaxSockets
       /\ sockets' = Append(sockets, [rs |-> "CONNECTING", est |-> FALSE, q |-> << >>])
       /\ wsRef' = Len(sockets) + 1

\* the early return for a missing token (lines 156-159) left out
connectWithoutTokenCheck ==
  IF wsRef # 0 /\ sockets[wsRef].rs = "OPEN"
  THEN UNCHANGED <<wsRef, sockets>>
  ELSE /\ Len(sockets) < MaxSockets
       /\ sockets' = Append(sockets, [rs |-> "CONNECTING", est |-> FALSE, q |-> << >>])
       /\ wsRef' = Len(sockets) + 1

\* connect(): sets wsRef and sockets
connect ==
  IF wsRef # 0 /\ sockets[wsRef].rs = "OPEN"
  THEN UNCHANGED <<wsRef, sockets>>
  ELSE IF token = 0
  THEN UNCHANGED <<wsRef, sockets>>
  ELSE /\ Len(sockets) < MaxSockets
       /\ sockets' = Append(sockets, [rs |-> "CONNECTING", est |-> FALSE, q |-> << >>])
       /\ wsRef' = Len(sockets) + 1

\* WebSocket.close(): a connecting or open socket starts closing; a closing
\* socket delivers no message event, so the frames in flight on it are lost
CloseSocket(sk) ==
  IF sk.rs \in {"CONNECTING", "OPEN"}
  THEN [sk EXCEPT !.rs = "CLOSING", !.q = << >>]
  ELSE sk

\* disconnect(): sets timers, reconnectTimeoutRef, sockets, wsRef, isConnected
disconnect ==
  /\ IF reconnectTimeoutRef # 0
     THEN /\ timers' = timers \ {reconnectTimeoutRef}
          /\ reconnectTimeoutRef' = 0
     ELSE UNCHANGED <<timers, reconnectTimeoutRef>>
  /\ IF wsRef # 0
     THEN /\ sockets' = [sockets EXCEPT ![wsRef] = CloseSocket(sockets[wsRef])]
          /\ wsRef' = 0
     ELSE UNCHANGED <<sockets, wsRef>>
  /\ setIsConnected(FALSE)

\* ws.onopen: sets isConnected and reconnectCountRef
onopen ==
  /\ setIsConnected(TRUE)
  /\ reconnectCountRef' = 0

\* `wsRef.current?.send(...)` without the test of readyState
sendWithoutOpenCheck(data) ==
  IF wsRef # 0
  THEN written' = Append(written, [sock |-> wsRef, payload |-> data])
  ELSE written' = written

\* send(data): writes to the current socket if it is open, else only warns
send(data) ==
  IF wsRef # 0 /\ sockets[wsRef].rs = "OPEN"
  THEN written' = Append(written, [sock |-> wsRef, payload |-> data])
  ELSE written' = written

\* <= in place of <: one retry more than the budget
ShouldReconnectOffByOne(code) ==
  code # NormalClosure /\ reconnectCountRef <= reconnectAttempts

\* the test of the close code left out
ShouldReconnectAnyCode(code) == reconnectCountRef < reconnectAttempts

\* `event.code === 1000` in place of `event.code !== 1000`
ShouldReconnectInverted(code) ==
  code = NormalClosure /\ reconnectCountRef < reconnectAttempts

\* the test of the budget left out
ShouldReconnectUnbounded(code) == code # NormalClosure

\* the condition of ws.onclose under which it schedules a reconnect
ShouldReconnect(code) ==
  code # NormalClosure /\ reconnectCountRef < reconnectAttempts

\* `reconnectCountRef.current = 0` added to the branch that schedules nothing
oncloseResetsWhenNotRetrying(code) ==
  /\ setIsConnected(FALSE)
  /\ wsRef' = 0
  /\ IF ShouldReconnect(code)
     THEN /\ reconnectCountRef' = reconnectCountRef + 1
          /\ reconnectTimeoutRef' = FreshTimer
          /\ timers' = timers \cup {FreshTimer}
     ELSE /\ reconnectCountRef' = 0
          /\ UNCHANGED <<reconnectTimeoutRef, timers>>

\* ws.onclose: sets isConnected, wsRef, reconnectCountRef, reconnectTimeoutRef, timers
onclose(code) ==
  /\ setIsConnected(FALSE)
  /\ wsRef' = 0
  /\ IF ShouldReconnect(code)
     THEN /\ reconnectCountRef' = reconnectCountRef + 1
          /\ reconnectTimeoutRef' = FreshTimer
          /\ timers' = timers \cup {FreshTimer}
     ELSE UNCHANGED <<reconnectCountRef, reconnectTimeoutRef, timers>>

\* the reconnect of onclose copied into onerror
onerrorReconnects ==
  /\ UNCHANGED <<wsRef, isConnected>>
  /\ IF ShouldReconnect(1006)
     THEN /\ reconnectCountRef' = reconnectCountRef + 1
          /\ reconnectTimeoutRef' = FreshTimer
          /\ timers' = timers \cup {FreshTimer}
     ELSE UNCHANGED <<reconnectCountRef, reconnectTimeoutRef, timers>>

\* ws.onerror: console.error only
onerror ==
  UNCHANGED <<wsRef, isConnected, reconnectCountRef, reconnectTimeoutRef, timers>>

(***************************************************************************)
(* Operations of the hook and events of its environment.                   *)
(***************************************************************************)
\* the auto-connect effect runs on mount
Mount ==
  \E autoConnect \in BOOLEAN :
    /\ mounted = "init"
    /\ mounted' = "mounted"
    /\ IF autoConnect THEN connect ELSE UNCHANGED <<wsRef, sockets>>
    /\ last' = [op |-> "mount", arg |-> Created]
    /\ UNCHANGED <<reconnectCountRef, reconnectTimeoutRef, isConnected, token,
                   timers, delayed, stopped, exhausted>>
    /\ UNCHANGED <<storeVars, eventVars>>

\* the effect's cleanup runs on unmount
Unmount ==
  /\ mounted = "mounted"
  /\ disconnect
  /\ mounted' = "unmounted"
  /\ stopped' = TRUE
  /\ last' = [op |-> "unmount", arg |-> 0]
  /\ UNCHANGED <<reconnectCountRef, token, delayed, exhausted>>
  /\ UNCHANGED <<storeVars, eventVars>>

\* a caller invokes the connect() the hook returns
Connect ==
  /\ mounted = "mounted"
  /\ connect
  /\ stopped' = FALSE
  /\ exhausted' = FALSE
  /\ last' = [op |-> "connect", arg |-> Created]
  /\ UNCHANGED <<reconnectCountRef, reconnectTimeoutRef, isConnected, mounted,
                 token, timers, delayed>>
  /\ UNCHANGED <<storeVars, eventVars>>

\* a caller invokes the disconnect() the hook returns
Disconnect ==
  /\ mounted = "mounted"
  /\ disconnect
  /\ stopped' = TRUE
  /\ last' = [op |-> "disconnect", arg |-> 0]
  /\ UNCHANGED <<reconnectCountRef, mounted, token, delayed, exhausted>>
  /\ UNCHANGED <<storeVars, eventVars>>

\* another document changes localStorage's token: the storage event reaches
\* handleStorageChange while the listener is attached
StorageChange ==
  \E newValue \in ({0} \cup Credentials) \ {token} :
    /\ token' = newValue
    /\ IF mounted = "mounted"
       THEN /\ disconnect
            /\ IF newValue # 0
               THEN /\ delayed < MaxDelayed
                    /\ delayed' = delayed + 1
                    /\ stopped' = FALSE
               ELSE /\ delayed' = delayed
                    /\ stopped' = TRUE
       ELSE UNCHANGED <<timers, reconnectTimeoutRef, sockets, wsRef, isConnected,
                        delayed, stopped>>
    /\ last' = [op |-> "storage", arg |-> newValue]
    /\ UNCHANGED <<reconnectCountRef, mounted, exhausted>>
    /\ UNCHANGED <<storeVars, eventVars>>

\* this document changes localStorage's token (login, logout): no storage
\* event is fired in the document that made the change
LocalTokenChange ==
  \E newValue \in ({0} \cup Credentials) \ {token} :
    /\ token' = newValue
    /\ last' = [op |-> "setItem", arg |-> newValue]
    /\ UNCHANGED <<wsRef, reconnectCountRef, reconnectTimeoutRef, isConnected, mounted,
                   sockets, timers, delayed, stopped, exhausted>>
    /\ UNCHANGED <<storeVars, eventVars>>

\* a reconnect timer fires: () => connect()
TimerFire ==
  \E t \in timers :
    /\ timers' = timers \ {t}
    /\ connect
    /\ last' = [op |-> "timer", arg |-> Created]
    /\ UNCHANGED <<reconnectCountRef, reconnectTimeoutRef, isConnected, mounted,
                   token, delayed, stopped, exhausted>>
    /\ UNCHANGED <<storeVars, eventVars>>

\* the setTimeout(connect, 100) of handleStorageChange fires
DelayedFire ==
  /\ delayed > 0
  /\ delayed' = delayed - 1
  /\ connect
  /\ exhausted' = FALSE
  /\ last' = [op |-> "delayed", arg |-> Created]
  /\ UNCHANGED <<reconnectCountRef, reconnectTimeoutRef, isConnected, mounted,
                 token, timers, stopped>>
  /\ UNCHANGED <<storeVars, eventVars>>

\* a caller invokes the send() the hook returns; the payloads are numbered
\* in the order of the calls
Send ==
  /\ mounted = "mounted"
  /\ sent < MaxSends
  /\ sent' = sent + 1
  /\ send(sent + 1)
  /\ last' = [op |-> "send", arg |-> sent + 1]
  /\ UNCHANGED <<hookRest, storeVars, lastMessage, toasts, invalidated, nextEvent>>

\* the handshake of socket s completes: readyState OPEN, open event
SocketOpen ==
  \E s \in DOMAIN sockets :
    /\ sockets[s].rs = "CONNECTING"
    /\ sockets' = [sockets EXCEPT ![s] = [@ EXCEPT !.rs = "OPEN", !.est = TRUE]]
    /\ onopen
    /\ last' = [op |-> "open", arg |-> 0]
    /\ UNCHANGED <<wsRef, reconnectTimeoutRef, mounted, token, timers, delayed,
                   stopped, exhausted>>
    /\ UNCHANGED <<storeVars, eventVars>>

\* the connection of socket s ends: readyState CLOSED, (error and) close event.
\* A connection whose handshake never completed closes with an abnormal code,
\* also when close() was called on it; an established one closes with the code
\* of the close handshake, or abnormally when the connection is lost.
SocketClose ==
  \E s \in DOMAIN sockets : \E code \in CloseCodes :
    /\ sockets[s].rs # "CLOSED"
    /\ sockets[s].est \/ code # NormalClosure
    /\ sockets' = [sockets EXCEPT ![s] = ClosedSocket]
    /\ exhausted' = IF code # NormalClosure /\ reconnectCountRef >= reconnectAttempts
                    THEN TRUE ELSE exhausted
    /\ onclose(code)
    /\ last' = [op |-> "close", arg |-> code]
    /\ UNCHANGED <<mounted, token, delayed, stopped>>
    /\ UNCHANGED <<storeVars, eventVars>>

\* socket s fails (handshake refused, connection lost): the error event,
\* which the close event of SocketClose follows
SocketError ==
  \E s \in DOMAIN sockets :
    /\ sockets[s].rs # "CLOSED"
    /\ onerror
    /\ last' = [op |-> "error", arg |-> s]
    /\ UNCHANGED <<sockets, mounted, token, delayed, stopped, exhausted>>
    /\ UNCHANGED <<storeVars, eventVars>>

Init == InitStore /\ InitHook /\ token \in 0..1

Next ==
  \/ Mount
  \/ Unmount
  \/ Connect
  \/ Disconnect
  \/ StorageChange
  \/ LocalTokenChange
  \/ TimerFire
  \/ DelayedFire
  \/ SocketOpen
  \/ SocketClose

Spec == Init /\ [][Next]_vars

(***************************************************************************)
(* useWebSocket: the message router handleMessage.                         *)
(*                                                                         *)
(* A frame is [eid, json, type, hasData, is_new, variant, beacon_id]: the  *)
(* id of the server event it carries, whether its text is JSON, the        *)
(* discriminant, whether the message has a data object, and the fields of  *)
(* data the router reads (data.is_new, data.variant, data.beacon_id).      *)
(***************************************************************************)
KnownTypes ==
  {"session_connected", "session_disconnected", "beacon_checkin",
   "beacon_disconnected", "task_completed", "notification"}

Key(name, id) == [name |-> name, id |-> id]

\* the dashboard-stats invalidation left out of the session cases
InvalidationsWithoutStats(m) ==
  CASE m.type \in {"session_connected", "session_disconnected"} ->
         <<Key("sessions", 0)>>
    [] m.type \in {"beacon_checkin", "beacon_disconnected"} ->
         <<Key("beacons", 0), Key("dashboard-stats", 0)>>
    [] m.type = "task_completed" /\ m.hasData ->
         <<Key("beacon-tasks", m.beacon_id)>>
    [] OTHER -> << >>

\* the invalidateQueries calls of a case of the switch, in order; those of
\* task_completed read message.data first
Invalidations(m) ==
  CASE m.type \in {"session_connected", "session_disconnected"} ->
         <<Key("sessions", 0), Key("dashboard-stats", 0)>>
    [] m.type \in {"beacon_checkin", "beacon_disconnected"} ->
         <<Key("beacons", 0), Key("dashboard-stats", 0)>>
    [] m.type = "task_completed" /\ m.hasData ->
         <<Key("beacon-tasks", m.beacon_id)>>
    [] OTHER -> << >>

\* the default case alerting like the notification case
AlertsAnyType(m) ==
  /\ m.hasData
  /\ m.type = "beacon_checkin" => m.is_new

\* the `if (message.data.is_new)` of the beacon_checkin case left out
AlertsEveryCheckin(m) ==
  /\ m.type \in KnownTypes
  /\ m.hasData

\* whether the case of the switch reaches its toast() and addNotification()
Alerts(m) ==
  /\ m.type \in KnownTypes
  /\ m.hasData
  /\ m.type = "beacon_checkin" => m.is_new

\* the variant of the toast of a case
ToastVariant(m) ==
  CASE m.type \in {"session_disconnected", "beacon_disconnected"} -> "destructive"
    [] m.type = "notification" -> m.variant
    [] OTHER -> "default"

\* the notification case ignoring data.variant
NotificationTypeVariantIgnored(m) ==
  CASE m.type = "session_connected" -> "session"
    [] m.type = "session_disconnected" -> "warning"
    [] m.type = "beacon_checkin" -> "beacon"
    [] m.type = "beacon_disconnected" -> "warning"
    [] OTHER -> "info"

\* the type of the notification of a case
NotificationType(m) ==
  CASE m.type = "session_connected" -> "session"
    [] m.type = "session_disconnected" -> "warning"
    [] m.type = "beacon_checkin" -> "beacon"
    [] m.type = "beacon_disconnected" -> "warning"
    [] m.type = "task_completed" -> "info"
    [] OTHER -> IF m.variant = "destructive" THEN "error" ELSE "info"

\* JSON.parse outside the try, its failure ignored: the text is routed anyway
handleMessageDecodeUnchecked(m) ==
  /\ lastMessage' = IF mounted = "unmounted" THEN lastMessage ELSE <<m>>
  /\ invalidated' = invalidated \o Invalidations(m)
  /\ IF Alerts(m)
     THEN /\ toasts' = Append(toasts, [eid |-> m.eid, variant |-> ToastVariant(m)])
          /\ addNotification([type |-> NotificationType(m), data |-> m.eid])
     ELSE UNCHANGED <<toasts, storeVars>>

\* the toast made only for a notification the store admits
handleMessageToastWhenAdmitted(m) ==
  IF ~m.json
  THEN UNCHANGED <<lastMessage, invalidated, toasts, storeVars>>
  ELSE /\ lastMessage' = IF mounted = "unmounted" THEN lastMessage ELSE <<m>>
       /\ invalidated' = invalidated \o Invalidations(m)
       /\ IF Alerts(m)
          THEN /\ toasts' = IF Admitted([type |-> NotificationType(m), data |-> m.eid])
                            THEN Append(toasts, [eid |-> m.eid, variant |-> ToastVariant(m)])
                            ELSE toasts
               /\ addNotification([type |-> NotificationType(m), data |-> m.eid])
          ELSE UNCHANGED <<toasts, storeVars>>

\* handleMessage(event): sets lastMessage, invalidated, toasts and the store
\* (setLastMessage is a state update, dropped once the component unmounted).
\* JSON.parse throwing, and a TypeError on reading a field of a missing
\* message.data, both end in the catch, which only logs.
handleMessage(m) ==
  IF ~m.json
  THEN UNCHANGED <<lastMessage, invalidated, toasts, storeVars>>
  ELSE /\ lastMessage' = IF mounted = "unmounted" THEN lastMessage ELSE <<m>>
       /\ invalidated' = invalidated \o Invalidations(m)
       /\ IF Alerts(m)
          THEN /\ toasts' = Append(toasts, [eid |-> m.eid, variant |-> ToastVariant(m)])
               /\ addNotification([type |-> NotificationType(m), data |-> m.eid])
          ELSE UNCHANGED <<toasts, storeVars>>

(***************************************************************************)
(* The server and the delivery of its frames.                              *)
(***************************************************************************)
Payload(t) ==
  [json |-> TRUE, type |-> t, hasData |-> TRUE, is_new |-> FALSE,
   variant |-> "default", beacon_id |-> 1]

\* the frames the server may send: each discriminant, an unknown one, the
\* payload variants the router distinguishes, a message without data, a
\* text that is not JSON and a truncated (hence not JSON) session_connected
Payloads ==
  {Payload(t) : t \in KnownTypes \cup {"heartbeat"}}
    \cup {[Payload("beacon_checkin") EXCEPT !.is_new = TRUE],
          [Payload("notification") EXCEPT !.variant = "destructive"],
          [Payload("task_completed") EXCEPT !.beacon_id = 2],
          [Payload("session_connected") EXCEPT !.hasData = FALSE],
          [Payload("") EXCEPT !.json = FALSE],
          [Payload("session_connected") EXCEPT !.json = FALSE]}

\* the frames the server sends in SpecEvents: one the router alerts on and
\* one it only invalidates for
EventPayloads == {Payload("session_connected"), Payload("beacon_checkin")}

Frame(eid, p) ==
  [eid |-> eid, json |-> p.json, type |-> p.type, hasData |-> p.hasData,
   is_new |-> p.is_new, variant |-> p.variant, beacon_id |-> p.beacon_id]

\* the server emits an event: a frame goes out on every connection that is
\* open; there is no replay for a connection made later
ServerEmit ==
  \E p \in EventPayloads :
    /\ nextEvent <= MaxEvents
    /\ nextEvent' = nextEvent + 1
    /\ sockets' = [s \in DOMAIN sockets |->
                     IF sockets[s].rs = "OPEN"
                     THEN [sockets[s] EXCEPT !.q = Append(@, Frame(nextEvent, p))]
                     ELSE sockets[s]]
    /\ last' = [op |-> "emit", arg |-> nextEvent]
    /\ UNCHANGED <<wsRef, reconnectCountRef, reconnectTimeoutRef, isConnected, mounted,
                   token, timers, delayed, stopped, exhausted>>
    /\ UNCHANGED <<storeVars, lastMessage, toasts, invalidated, sent, written>>

\* the browser delivers the next frame of an open socket: ws.onmessage
SocketMessage ==
  \E s \in DOMAIN sockets :
    /\ sockets[s].rs = "OPEN"
    /\ sockets[s].q # << >>
    /\ sockets' = [sockets EXCEPT ![s].q = Tail(@)]
    /\ handleMessage(Head(sockets[s].q))
    /\ last' = [op |-> "message", arg |-> Head(sockets[s].q).eid]
    /\ UNCHANGED <<wsRef, reconnectCountRef, reconnectTimeoutRef, isConnected, mounted,
                   token, timers, delayed, stopped, exhausted, nextEvent, sent, written>>

(***************************************************************************)
(* SpecEvents: the hook of a signed-in user while the server emits events: *)
(* connect(), disconnect(), reconnect timers and socket events interleave  *)
(* with the emission and the delivery of frames.                           *)
(***************************************************************************)
InitEvents == InitStore /\ InitHook /\ token = 1

Within == Len(sockets') <= MaxEventSockets

EventsMount == Mount /\ Within

EventsConnect == Connect /\ Within

EventsDisconnect == Disconnect /\ Within

EventsTimerFire == TimerFire /\ Within

EventsSocketOpen == SocketOpen /\ Within

EventsSocketClose == SocketClose /\ Within

NextEvents ==
  \/ EventsMount
  \/ EventsConnect
  \/ EventsDisconnect
  \/ EventsTimerFire
  \/ EventsSocketOpen
  \/ EventsSocketClose
  \/ ServerEmit
  \/ SocketMessage

SpecEvents == InitEvents /\ [][NextEvents]_vars

(***************************************************************************)
(* SpecSend: the hook of a signed-in user whose caller also sends          *)
(* payloads, at any moment of the connection's life, and whose sockets     *)
(* fire error events.                                                      *)
(***************************************************************************)
NextSend ==
  \/ EventsMount
  \/ EventsConnect
  \/ EventsDisconnect
  \/ EventsTimerFire
  \/ EventsSocketOpen
  \/ EventsSocketClose
  \/ SocketError
  \/ Send

SpecSend == InitEvents /\ [][NextSend]_vars

(***************************************************************************)
(* SpecRouter: the router on one open connection.  The server sends frames *)
(* of every shape, the browser delivers them in order, and the user turns  *)
(* the admission settings of sessions and beacons on and off meanwhile.    *)
(***************************************************************************)
RouterMount == Mount /\ Len(sockets') = 1

\* the server sends a frame on the open connection
RouterSend ==
  \E p \in Payloads :
    /\ nextEvent <= MaxFrames
    /\ wsRef # 0 /\ sockets[wsRef].rs = "OPEN"
    /\ nextEvent' = nextEvent + 1
    /\ sockets' = [sockets EXCEPT ![wsRef].q = Append(@, Frame(nextEvent, p))]
    /\ last' = [op |-> "emit", arg |-> nextEvent]
    /\ UNCHANGED <<wsRef, reconnectCountRef, reconnectTimeoutRef, isConnected, mounted,
                   token, timers, delayed, stopped, exhausted>>
    /\ UNCHANGED <<storeVars, lastMessage, toasts, invalidated, sent, written>>

RouterUpdateSettings ==
  \E k \in {"showNewSessions", "showNewBeacons"} :
    /\ updateSettings([x \in {k} |-> ~settings[k]])
    /\ last' = [op |-> "updateSettings", arg |-> 0]
    /\ UNCHANGED <<hookRest, eventVars>>

NextRouter ==
  \/ RouterMount
  \/ SocketOpen
  \/ RouterSend
  \/ SocketMessage
  \/ RouterUpdateSettings

SpecRouter == InitEvents /\ [][NextRouter]_vars

(***************************************************************************)
(* SpecInbox: the store filled to its capacity.  The callers add records   *)
(* of an ungated category one by one; the user reads and clears once the   *)
(* inbox is (nearly) full, aiming at the newest record, the oldest record  *)
(* or an id that is not in the list.                                       *)
(***************************************************************************)
InboxCategories == {"info"}

NearlyFull == Len(notifications) >= Capacity - 1

InboxTargets ==
  {0} \cup {notifications[i].id : i \in {1, Len(notifications)} \cap DOMAIN notifications}

InboxAdd ==
  \E c \in InboxCategories :
    /\ nextId <= MaxAdds
    /\ addNotification([type |-> c, data |-> 0])
    /\ last' = [op |-> "add", arg |-> c]
    /\ UNCHANGED <<hookRest, eventVars>>

InboxMarkAsRead ==
  \E id \in InboxTargets :
    /\ NearlyFull
    /\ markAsRead(id)
    /\ last' = [op |-> "markAsRead", arg |-> id]
    /\ UNCHANGED <<hookRest, eventVars>>

InboxMarkAllAsRead ==
  /\ NearlyFull
  /\ markAllAsRead
  /\ last' = [op |-> "markAllAsRead", arg |-> 0]
  /\ UNCHANGED <<hookRest, eventVars>>

InboxClearNotification ==
  \E id \in InboxTargets :
    /\ NearlyFull
    /\ clearNotification(id)
    /\ last' = [op |-> "clearNotification", arg |-> id]
    /\ UNCHANGED <<hookRest, eventVars>>

InboxClearAll ==
  /\ NearlyFull
  /\ clearAll
  /\ last' = [op |-> "clearAll", arg |-> 0]
  /\ UNCHANGED <<hookRest, eventVars>>

NextInbox ==
  \/ InboxAdd
  \/ InboxMarkAsRead
  \/ InboxMarkAllAsRead
  \/ InboxClearNotification
  \/ InboxClearAll

InitInbox == InitStore /\ InitHook /\ token = 0

SpecInbox == InitInbox /\ [][NextInbox]_vars

(***************************************************************************)
(* SpecStore: the store with every setting: the callers add a few records, *)
(* the user reads, clears and changes the settings one field at a time,    *)
(* and the page is reloaded now and then.                                  *)
(***************************************************************************)
\* the categories the callers add in SpecStore: the three that a setting
\* gates and one that none does
StoreCategories == {"session", "beacon", "listener", "info"}

StoreAdd ==
  \E c \in StoreCategories :
    /\ nextId <= MaxStoreAdds
    /\ addNotification([type |-> c, data |-> 0])
    /\ last' = [op |-> "add", arg |-> c]
    /\ UNCHANGED <<hookRest, eventVars>>

\* the ids a caller may pass: those issued so far, and one never issued (0)
StoreMarkAsRead ==
  \E id \in 0..(nextId - 1) :
    /\ markAsRead(id)
    /\ last' = [op |-> "markAsRead", arg |-> id]
    /\ UNCHANGED <<hookRest, eventVars>>

StoreMarkAllAsRead ==
  /\ markAllAsRead
  /\ last' = [op |-> "markAllAsRead", arg |-> 0]
  /\ UNCHANGED <<hookRest, eventVars>>

StoreClearNotification ==
  \E id \in 0..(nextId - 1) :
    /\ clearNotification(id)
    /\ last' = [op |-> "clearNotification", arg |-> id]
    /\ UNCHANGED <<hookRest, eventVars>>

StoreClearAll ==
  /\ clearAll
  /\ last' = [op |-> "clearAll", arg |-> 0]
  /\ UNCHANGED <<hookRest, eventVars>>

StoreUpdateSettings ==
  \E k \in DOMAIN DefaultSettings :
    /\ updateSettings([x \in {k} |-> ~settings[k]])
    /\ last' = [op |-> "updateSettings", arg |-> k]
    /\ UNCHANGED <<hookRest, eventVars>>

StoreRestart ==
  /\ Restart
  /\ last' = [op |-> "restart", arg |-> 0]
  /\ UNCHANGED <<hookRest, eventVars>>

NextStore ==
  \/ StoreAdd
  \/ StoreMarkAsRead
  \/ StoreMarkAllAsRead
  \/ StoreClearNotification
  \/ StoreClearAll
  \/ StoreUpdateSettings
  \/ StoreRestart

SpecStore == InitInbox /\ [][NextStore]_vars

(***************************************************************************)
(* Derived values used by the properties.                                  *)
(***************************************************************************)
Unread == {i \in 1..Len(notifications) : ~notifications[i].read}

\* most-recent-first: ids strictly decrease from the head to the tail
NewestFirst(l) == \A i \in 1..Len(l) : \A j \in 1..Len(l) : i < j => l[i].id > l[j].id

\* the sockets of the hook that are connecting or open
Live == {s \in DOMAIN sockets : sockets[s].rs \in {"CONNECTING", "OPEN"}}

\* the setting that gates a category; the categories without one are not gated
Gate(c) ==
  CASE c = "session" -> "showNewSessions"
    [] c = "beacon" -> "showNewBeacons"
    [] c = "listener" -> "showListenerEvents"
    [] OTHER -> ""

\* the frame that carries event e, while a socket still holds it
FrameOf(e) ==
  CHOOSE f \in UNION {{sockets[s].q[i] : i \in DOMAIN sockets[s].q} : s \in DOMAIN sockets} :
    f.eid = e

\* in a step that delivers a frame: the frame it delivers
Handled == FrameOf(last'.arg)

\* in a step: the invalidateQueries calls it makes, in order
NewKeys == SubSeq(invalidated', Len(invalidated) + 1, Len(invalidated'))

\* in a step: the toast() calls it makes, in order
NewToasts == SubSeq(toasts', Len(toasts) + 1, Len(toasts'))

\* in a step that delivers a frame: the step puts exactly one record, unread,
\* of category c and carrying the frame's data, in front of the list and
\* counts it
Prepended(c) ==
  /\ Len(notifications') = Len(notifications) + 1
  /\ notifications'[1].type = c
  /\ notifications'[1].data = last'.arg
  /\ ~notifications'[1].read
  /\ \A i \in DOMAIN notifications : notifications'[i + 1] = notifications[i]
  /\ unreadCount' = unreadCount + 1

\* the toast() calls and the notification records that carry event e
ToastsOf(e) == {i \in DOMAIN toasts : toasts[i].eid = e}

RecordsOf(e) == {i \in DOMAIN notifications : notifications[i].data = e}

(***************************************************************************)
(* Claims.                                                                 *)
(***************************************************************************)

\* C1: after every store operation unreadCount equals the number of records
\* of the list whose read flag is false.
C1_UnreadCountExact == unreadCount = Cardinality(Unread)

\* C2: in every reachable state at most one socket the hook created is
\* connecting or open.
C2_AtMostOneLiveSocket == Cardinality(Live) <= 1

\* C3: after disconnect() or unmount, and until a caller asks to connect
\* again, no timer-driven connect() runs and no socket is created.
C3_NoAttemptAfterDisconnect ==
  [][stopped /\ stopped' =>
       /\ Len(sockets') = Len(sockets)
       /\ last'.op \notin {"timer", "delayed"}]_vars

\* C4: handling a close event with a code other than 1000 increments
\* reconnectCountRef by exactly 1 and schedules exactly one timer (the one
\* reconnectTimeoutRef then holds) when reconnectCountRef < reconnectAttempts;
\* otherwise it schedules no timer and leaves reconnectCountRef unchanged.
C4_AbnormalCloseRetriesWithinBudget ==
  [][last'.op = "close" /\ last'.arg # NormalClosure =>
       IF reconnectCountRef < reconnectAttempts
       THEN /\ reconnectCountRef' = reconnectCountRef + 1
            /\ timers \subseteq timers'
            /\ Cardinality(timers') = Cardinality(timers) + 1
            /\ reconnectTimeoutRef' \in timers' \ timers
       ELSE /\ reconnectCountRef' = reconnectCountRef
            /\ timers' = timers]_vars

\* C4 witness: an abnormal close was handled with the budget spent: it
\* scheduled nothing (a close handled within the budget leaves a timer).
C4_Witness ==
  /\ last.op = "close"
  /\ last.arg # NormalClosure
  /\ reconnectCountRef = reconnectAttempts
  /\ timers = {}

\* C5: a reconnect timer that is pending when disconnect() runs is cancelled
\* by it.
C5_DisconnectCancelsPendingTimers ==
  [][last'.op \in {"disconnect", "unmount"} => timers \cap timers' = {}]_vars

\* C6: the list never holds more than Capacity records and stays
\* most-recent-first; an admitted addition puts the new record first, keeps
\* the previous records behind it in their order, and what it drops is the
\* tail (the oldest records).
C6_CapacityDropsOldest ==
  [][/\ Len(notifications') <= Capacity
     /\ NewestFirst(notifications')
     /\ nextId' # nextId =>
          /\ Len(notifications') =
               (IF Len(notifications) < Capacity THEN Len(notifications) + 1 ELSE Capacity)
          /\ notifications'[1].id = nextId
          /\ \A i \in 2..Len(notifications') : notifications'[i] = notifications[i - 1]]_vars

\* C6 witness: 101 records were added and none read or cleared; the record
\* with id 1 is gone, ids 101 down to 2 remain.
C6_Witness ==
  /\ Len(notifications) = Capacity
  /\ nextId = Capacity + 2
  /\ notifications[1].id = Capacity + 1
  /\ notifications[Capacity].id = 2
  /\ \A i \in 1..Capacity : ~notifications[i].read

\* C7: each event the server emits produces at most one toast and at most
\* one notification record.
C7_AtMostOncePerEvent ==
  \A e \in 1..(nextEvent - 1) :
    /\ Cardinality(ToastsOf(e)) <= 1
    /\ Cardinality(RecordsOf(e)) <= 1

\* C8: handling a close event that carries the normal-closure code schedules
\* no timer and leaves reconnectCountRef unchanged.
C8_NormalCloseNeverRetries ==
  [][last'.op = "close" /\ last'.arg = NormalClosure =>
       /\ timers' = timers
       /\ reconnectTimeoutRef' = reconnectTimeoutRef
       /\ reconnectCountRef' = reconnectCountRef]_vars

\* C8 witness: a normal close was handled while retry budget remained.
C8_Witness ==
  /\ last.op = "close"
  /\ last.arg = NormalClosure
  /\ reconnectCountRef < reconnectAttempts

\* C9: once a close was handled with the budget spent, isConnected is false
\* and stays false and no socket is created, until connect() is called from
\* outside the retry loop.
C9_ExhaustedStaysDown ==
  [][exhausted' =>
       /\ ~isConnected'
       /\ exhausted => Len(sockets') = Len(sockets)]_vars

\* C10: handling a socket's open event (of a mounted hook) resets
\* reconnectCountRef to 0, sets isConnected and leaves no reconnect timer
\* pending.
C10_OpenResetsCounterAndTimer ==
  [][last'.op = "open" /\ mounted = "mounted" =>
       /\ reconnectCountRef' = 0
       /\ isConnected'
       /\ timers' = {}]_vars

\* C11: addNotification for a candidate whose category's admission setting
\* is disabled changes neither the list nor unreadCount and triggers no
\* sound or desktop effect.
C11_DisabledCategoryIsNoOp ==
  [][/\ last'.op = "add"
     /\ Gate(last'.arg) # ""
     /\ ~settings[Gate(last'.arg)]
     => /\ notifications' = notifications
        /\ unreadCount' = unreadCount
        /\ effects' = << >>]_vars

\* C11 witness: a beacon candidate was offered with showNewBeacons off while
\* the sound and the desktop effect were both enabled and the inbox held a
\* record; nothing was added.
C11_Witness ==
  /\ last.op = "add"
  /\ last.arg = "beacon"
  /\ ~settings.showNewBeacons
  /\ settings.soundEnabled /\ settings.desktopEnabled
  /\ Len(notifications) = 1
  /\ unreadCount = 1
  /\ effects = << >>

\* C12: markAsRead(id) on an unread record sets its read flag and decrements
\* unreadCount by exactly 1, leaving every other record as it was; on a read
\* record or an id not in the list it changes nothing (so a second call with
\* the same id changes nothing more).
C12_MarkAsReadIdempotent ==
  [][last'.op = "markAsRead" =>
       IF \E i \in DOMAIN notifications :
            notifications[i].id = last'.arg /\ ~notifications[i].read
       THEN /\ unreadCount' = unreadCount - 1
            /\ Len(notifications') = Len(notifications)
            /\ \A i \in DOMAIN notifications :
                 notifications'[i] =
                   IF notifications[i].id = last'.arg
                   THEN [notifications[i] EXCEPT !.read = TRUE]
                   ELSE notifications[i]
       ELSE /\ unreadCount' = unreadCount
            /\ notifications' = notifications]_vars

\* C12 witness: of two unread records the older one was marked as read: it
\* is read, the newer one is not, and the counter went from 2 to 1.
C12_Witness ==
  /\ last.op = "markAsRead"
  /\ Len(notifications) = 2
  /\ notifications[2].id = last.arg /\ notifications[2].read
  /\ ~notifications[1].read
  /\ unreadCount = 1

\* C13: a frame that fails JSON decoding is discarded: no cache
\* invalidation, no toast, no change of the store or of lastMessage, and the
\* connection (socket handle, readyState, isConnected, retry counter, timer)
\* is as it was.
C13_UndecodableFrameDiscarded ==
  [][last'.op = "message" /\ ~Handled.json =>
       /\ UNCHANGED <<invalidated, toasts, notifications, unreadCount, effects,
                      lastMessage>>
       /\ UNCHANGED <<wsRef, isConnected, reconnectCountRef, reconnectTimeoutRef,
                      timers>>
       /\ \A s \in DOMAIN sockets : sockets'[s].rs = sockets[s].rs]_vars

\* C13 witness: the first frame was delivered and did not decode (lastMessage
\* is still null); the hook is connected on the same socket, nothing was
\* invalidated, shown or recorded.
C13_Witness ==
  /\ last.op = "message"
  /\ last.arg = 1
  /\ lastMessage = << >>
  /\ isConnected /\ wsRef = 1 /\ sockets[1].rs = "OPEN"
  /\ invalidated = << >> /\ toasts = << >> /\ notifications = << >>

\* C14: a frame that decodes but whose type is not a known discriminant
\* makes no cache invalidation, no toast and no notification.
C14_UnknownTypeNoEffect ==
  [][last'.op = "message" /\ Handled.json /\ Handled.type \notin KnownTypes =>
       UNCHANGED <<invalidated, toasts, notifications, unreadCount, effects>>]_vars

\* C14 witness: a frame of an unknown type was decoded (it is lastMessage)
\* and left no trace.
C14_Witness ==
  /\ last.op = "message"
  /\ lastMessage # << >>
  /\ lastMessage[1].eid = last.arg
  /\ lastMessage[1].type \notin KnownTypes
  /\ invalidated = << >> /\ toasts = << >> /\ notifications = << >>

\* C15 as stated: a beacon_checkin frame invalidates beacons and
\* dashboard-stats; with data.is_new false it makes no toast and no
\* notification, with data.is_new true it puts exactly one notification of
\* category beacon in the list.
C15_BeaconCheckinAsStated ==
  [][/\ last'.op = "message"
     /\ Handled.json /\ Handled.hasData /\ Handled.type = "beacon_checkin"
     => /\ NewKeys = <<Key("beacons", 0), Key("dashboard-stats", 0)>>
        /\ IF Handled.is_new
           THEN Prepended("beacon")
           ELSE UNCHANGED <<toasts, notifications, unreadCount>>]_vars

\* C15 amended: as above, but with data.is_new true the notification of
\* category beacon enters the list when showNewBeacons is true, and none
\* does when it is false.
C15_BeaconCheckinWhenAdmitted ==
  [][/\ last'.op = "message"
     /\ Handled.json /\ Handled.hasData /\ Handled.type = "beacon_checkin"
     => /\ NewKeys = <<Key("beacons", 0), Key("dashboard-stats", 0)>>
        /\ IF Handled.is_new
           THEN IF settings.showNewBeacons
                THEN Prepended("beacon")
                ELSE UNCHANGED <<notifications, unreadCount>>
           ELSE UNCHANGED <<toasts, notifications, unreadCount>>]_vars

\* C15 witness: a first check-in was delivered with showNewBeacons on: the
\* two caches were invalidated and one beacon record is in the list.
C15_Witness ==
  /\ last.op = "message"
  /\ lastMessage # << >>
  /\ lastMessage[1].type = "beacon_checkin" /\ lastMessage[1].is_new
  /\ settings.showNewBeacons
  /\ invalidated = <<Key("beacons", 0), Key("dashboard-stats", 0)>>
  /\ Len(notifications) = 1 /\ notifications[1].type = "beacon"
  /\ unreadCount = 1

\* C16: handling a session_connected frame while showNewSessions is true
\* invalidates exactly sessions and dashboard-stats, shows exactly one
\* toast, prepends exactly one notification of category session and
\* increases unreadCount by exactly 1.
C16_SessionConnectedEffects ==
  [][/\ last'.op = "message"
     /\ Handled.json /\ Handled.hasData /\ Handled.type = "session_connected"
     /\ settings.showNewSessions
     => /\ NewKeys = <<Key("sessions", 0), Key("dashboard-stats", 0)>>
        /\ Len(NewToasts) = 1 /\ NewToasts[1].eid = Handled.eid
        /\ Prepended("session")]_vars

\* C16 witness: one session_connected frame was delivered with
\* showNewSessions on.
C16_Witness ==
  /\ last.op = "message"
  /\ lastMessage # << >>
  /\ lastMessage[1].type = "session_connected"
  /\ settings.showNewSessions
  /\ invalidated = <<Key("sessions", 0), Key("dashboard-stats", 0)>>
  /\ Len(toasts) = 1
  /\ Len(notifications) = 1 /\ notifications[1].type = "session"
  /\ unreadCount = 1

\* C17: for each known discriminant the router runs one handler (at most
\* one toast, at most one notification) that invalidates exactly the keys of
\* the side-effect table and offers the store a notification of exactly the
\* table's category: the record that enters the list has that category, and
\* one enters unless the category's admission setting is off (or, for
\* beacon_checkin, the check-in is not the first).
C17_SideEffectTable ==
  [][/\ last'.op = "message"
     /\ Handled.json /\ Handled.hasData /\ Handled.type \in KnownTypes
     => LET t == Handled.type
            keys ==
              CASE t \in {"session_connected", "session_disconnected"} ->
                     {Key("sessions", 0), Key("dashboard-stats", 0)}
                [] t \in {"beacon_checkin", "beacon_disconnected"} ->
                     {Key("beacons", 0), Key("dashboard-stats", 0)}
                [] t = "task_completed" -> {Key("beacon-tasks", Handled.beacon_id)}
                [] t = "notification" -> {}
            category ==
              CASE t = "session_connected" -> "session"
                [] t \in {"session_disconnected", "beacon_disconnected"} -> "warning"
                [] t = "beacon_checkin" -> "beacon"
                [] t = "task_completed" -> "info"
                [] t = "notification" ->
                     IF Handled.variant = "destructive" THEN "error" ELSE "info"
            alerts == t = "beacon_checkin" => Handled.is_new
            admitted == Gate(category) = "" \/ settings[Gate(category)]
        IN /\ {NewKeys[i] : i \in DOMAIN NewKeys} = keys
           /\ Len(NewKeys) = Cardinality(keys)
           /\ Len(NewToasts) = (IF alerts THEN 1 ELSE 0)
           /\ IF alerts /\ admitted
              THEN Prepended(category)
              ELSE UNCHANGED <<notifications, unreadCount>>]_vars

\* C17 witness: a task_completed frame for beacon 2 and then a destructive
\* notification frame were delivered: only beacon-tasks of beacon 2 was
\* invalidated, and the list holds an error record in front of an info one.
C17_Witness ==
  /\ last.op = "message"
  /\ lastMessage # << >>
  /\ lastMessage[1].type = "notification"
  /\ invalidated = <<Key("beacon-tasks", 2)>>
  /\ Len(toasts) = 2
  /\ Len(notifications) = 2
  /\ notifications[1].type = "error" /\ notifications[2].type = "info"

\* C18: a storage event that carries a new non-empty credential makes the
\* mounted hook disconnect (the current socket starts closing, the handle
\* and the tracked timer are dropped) and schedule one delayed connect(),
\* without connecting at once; the delayed connect() makes one attempt
\* (unless the token is gone or the hook holds an open socket by then); and
\* every socket created embeds the credential localStorage holds at that
\* time, never an earlier one.
C18_CredentialChangeReconnects ==
  [][/\ (last'.op = "storage" /\ last'.arg # 0 /\ mounted = "mounted" =>
          /\ wsRef' = 0
          /\ ~isConnected'
          /\ reconnectTimeoutRef' = 0
          /\ reconnectTimeoutRef \notin timers'
          /\ wsRef # 0 => sockets'[wsRef].rs \in {"CLOSING", "CLOSED"}
          /\ Len(sockets') = Len(sockets)
          /\ delayed' = delayed + 1)
     /\ (last'.op = "delayed" =>
          /\ delayed' = delayed - 1
          /\ Len(sockets') <= Len(sockets) + 1
          /\ token # 0 /\ ~(wsRef # 0 /\ sockets[wsRef].rs = "OPEN") =>
               /\ Len(sockets') = Len(sockets) + 1
               /\ sockets'[Len(sockets')].rs = "CONNECTING"
               /\ wsRef' = Len(sockets'))
     /\ (Len(sockets') > Len(sockets) => last'.arg = token' /\ token' # 0)]_vars

\* C18 witness: the hook connected with the first credential, a storage
\* event brought the second one, the first socket was closed and the delayed
\* connect() has just created a socket whose URL embeds the second.
C18_Witness ==
  /\ last.op = "delayed"
  /\ last.arg = 2 /\ token = 2
  /\ Len(sockets) = 2
  /\ sockets[1].rs \in {"CLOSING", "CLOSED"}
  /\ sockets[2].rs = "CONNECTING" /\ wsRef = 2

\* C19: connect() while the current socket is open creates no socket and
\* leaves the handle, isConnected, the retry counter and the timers as they
\* were (a connect() run by a timer leaves all but its own timer).
C19_ConnectWhileOpenIsNoOp ==
  [][/\ last'.op \in {"connect", "timer", "delayed"}
     /\ wsRef # 0 /\ sockets[wsRef].rs = "OPEN"
     => /\ UNCHANGED <<sockets, wsRef, isConnected, reconnectCountRef,
                       reconnectTimeoutRef>>
        /\ last'.op # "timer" => timers' = timers
        /\ last'.op = "timer" =>
             timers' \subseteq timers /\ Cardinality(timers') = Cardinality(timers) - 1]_vars

\* C19 witness: a caller's connect() ran with a credential available and
\* created nothing: the hook still holds its open socket.
C19_Witness ==
  /\ last.op = "connect"
  /\ last.arg = 0
  /\ token # 0
  /\ wsRef # 0 /\ sockets[wsRef].rs = "OPEN"
  /\ isConnected

\* C20: connect() without a credential creates no socket and leaves the
\* handle, isConnected, the retry counter and the timers as they were, also
\* when a fired reconnect timer makes the call (only that timer is gone).
C20_ConnectWithoutTokenIsNoOp ==
  [][/\ last'.op \in {"mount", "connect", "timer", "delayed"}
     /\ token = 0
     => /\ UNCHANGED <<sockets, wsRef, isConnected, reconnectCountRef,
                       reconnectTimeoutRef>>
        /\ last'.op # "timer" => timers' = timers
        /\ last'.op = "timer" =>
             timers' \subseteq timers /\ Cardinality(timers') = Cardinality(timers) - 1]_vars

\* C20 witness: a reconnect timer fired after the token was removed: no
\* socket is live and the hook holds none.
C20_Witness ==
  /\ last.op = "timer"
  /\ token = 0
  /\ wsRef = 0
  /\ Live = {}
  /\ Len(sockets) >= 1

\* C21: send(payload) writes the payload to the current socket if that
\* socket is open and otherwise writes nothing; no other step ever writes,
\* so a dropped payload is never written later.
C21_SendOnlyWhenOpen ==
  [][/\ last'.op = "send" =>
          IF wsRef # 0 /\ sockets[wsRef].rs = "OPEN"
          THEN written' = Append(written, [sock |-> wsRef, payload |-> last'.arg])
          ELSE written' = written
     /\ last'.op # "send" => written' = written]_vars

\* C21 witness: the first payload was sent while the socket was connecting
\* and dropped; the socket opened, the second payload was written, and the
\* first never was.
C21_Witness ==
  /\ last.op = "send"
  /\ sent = 2
  /\ written = <<[sock |-> 1, payload |-> 2]>>

\* C22: across a restart the settings keep the value they had, while the
\* list starts empty and unreadCount starts at 0.
C22_OnlySettingsSurviveRestart ==
  [][last'.op = "restart" =>
       /\ settings' = settings
       /\ notifications' = << >>
       /\ unreadCount' = 0]_vars

\* C22 witness: records had been added and the settings changed from their
\* defaults; after the restart the settings are the changed ones and the
\* inbox is empty.
C22_Witness ==
  /\ last.op = "restart"
  /\ nextId > 1
  /\ ~settings.soundEnabled /\ settings.desktopEnabled /\ ~settings.showNewBeacons
  /\ notifications = << >>
  /\ unreadCount = 0

\* C23: clearNotification(id) removes the record with that id, the other
\* records keeping their content and order, and decrements unreadCount by
\* exactly 1 if and only if that record was unread; for an id not in the
\* list it changes neither the list nor unreadCount.
C23_ClearNotificationExact ==
  [][last'.op = "clearNotification" =>
       IF \E i \in DOMAIN notifications : notifications[i].id = last'.arg
       THEN LET k == CHOOSE i \in DOMAIN notifications : notifications[i].id = last'.arg
            IN /\ Len(notifications') = Len(notifications) - 1
               /\ \A i \in 1..(k - 1) : notifications'[i] = notifications[i]
               /\ \A i \in (k + 1)..Len(notifications) :
                    notifications'[i - 1] = notifications[i]
               /\ unreadCount' =
                    (IF notifications[k].read THEN unreadCount ELSE unreadCount - 1)
       ELSE /\ notifications' = notifications
            /\ unreadCount' = unreadCount]_vars

\* C23 witness: from a full inbox of unread records the newest was cleared:
\* the 99 others are there in their order and the counter counts them.
C23_Witness ==
  /\ last.op = "clearNotification"
  /\ last.arg = Capacity
  /\ nextId = Capacity + 1
  /\ Len(notifications) = Capacity - 1
  /\ \A i \in DOMAIN notifications :
       notifications[i].id = Capacity - i /\ ~notifications[i].read
  /\ unreadCount = Capacity - 1

\* C24: updateSettings(partial) gives the field named in partial the value
\* partial carries and leaves the other fields, the list and unreadCount
\* as they were; the addNotification call that follows is admitted or
\* dropped by the new values.
C24_UpdateSettingsFrame ==
  [][/\ last'.op = "updateSettings" =>
          /\ DOMAIN settings' = DOMAIN settings
          /\ settings'[last'.arg] = ~settings[last'.arg]
          /\ \A k \in DOMAIN settings \ {last'.arg} : settings'[k] = settings[k]
          /\ notifications' = notifications
          /\ unreadCount' = unreadCount
     /\ last.op = "updateSettings" /\ last'.op = "add" =>
          IF Gate(last'.arg) = "" \/ settings[Gate(last'.arg)]
          THEN /\ Len(notifications') = Len(notifications) + 1
               /\ notifications'[1].type = last'.arg
          ELSE notifications' = notifications]_vars

\* C24 witness: a session record was admitted, showNewSessions was then
\* turned off, and the next session candidate was dropped; the record
\* admitted before is still there.
C24_Witness ==
  /\ last.op = "add"
  /\ last.arg = "session"
  /\ ~settings.showNewSessions
  /\ Len(notifications) = 1
  /\ notifications[1].type = "session"
  /\ effects = << >>

\* C25: an admitted addNotification call makes the sound call exactly once
\* if soundEnabled is true and not at all otherwise, and the desktop call
\* exactly once if desktopEnabled is true and not at all otherwise.
C25_EffectsFollowTheirSettings ==
  [][last'.op = "add" /\ nextId' # nextId =>
       /\ Cardinality({i \in DOMAIN effects' : effects'[i] = "sound"})
            = (IF settings.soundEnabled THEN 1 ELSE 0)
       /\ Cardinality({i \in DOMAIN effects' : effects'[i] = "desktop"})
            = (IF settings.desktopEnabled THEN 1 ELSE 0)
       /\ Len(effects') <= 2]_vars

\* C25 witness: a record was admitted with the sound off and the desktop
\* effect on: the desktop call alone was made.
C25_Witness ==
  /\ last.op = "add"
  /\ ~settings.soundEnabled /\ settings.desktopEnabled
  /\ effects = <<"desktop">>
  /\ Len(notifications) >= 1
  /\ notifications[1].id = nextId - 1

\* C28: unreadCount is never negative and never smaller than the number of
\* unread records in the list.
C28_CounterNeverUndercounts ==
  /\ unreadCount >= 0
  /\ unreadCount >= Cardinality(Unread)

\* C28 witness: the inbox overflowed and the user then read a record: the
\* counter is above the number of unread records, and both are positive.
C28_Witness ==
  /\ unreadCount > Cardinality(Unread)
  /\ Cardinality(Unread) > 0
  /\ Cardinality(Unread) < Len(notifications)

\* C26: right after disconnect() or the unmount cleanup every socket the
\* hook ever created is closing or closed.
C26_DisconnectClosesEverySocket ==
  [][last'.op \in {"disconnect", "unmount"} =>
       \A s \in DOMAIN sockets' : sockets'[s].rs \in {"CLOSING", "CLOSED"}]_vars

\* C27: the close event of a socket that disconnect() tore down (it was
\* closing) changes no state of the hook: not the handle, not isConnected,
\* not the retry counter, not the timers.
C27_TornDownSocketIsSilent ==
  [][/\ last'.op = "close"
     /\ \E s \in DOMAIN sockets : sockets[s].rs = "CLOSING" /\ sockets'[s].rs = "CLOSED"
     => UNCHANGED <<wsRef, isConnected, reconnectCountRef, reconnectTimeoutRef,
                    timers>>]_vars

\* C29: while the hook is mounted, isConnected is true exactly when the
\* handle refers to a socket whose open event was handled and whose close
\* event was not (so that send() writes), and every open socket of the hook
\* makes isConnected true.
C29_IsConnectedAgreesWithSocket ==
  mounted = "mounted" =>
    /\ isConnected <=> (wsRef # 0 /\ sockets[wsRef].est /\ sockets[wsRef].rs = "OPEN")
    /\ \A s \in DOMAIN sockets : sockets[s].rs = "OPEN" => isConnected

\* C30: at most one reconnect timer is pending, and the tracked handle
\* reconnectTimeoutRef identifies the one that is.
C30_AtMostOneTrackedTimer ==
  /\ Cardinality(timers) <= 1
  /\ timers # {} => reconnectTimeoutRef \in timers

(***************************************************************************)
(* SpecRetry: the hook of a signed-in user, with the guarantee of          *)
(* setTimeout: a reconnect timer that is set and not cleared runs its      *)
(* callback.                                                               *)
(***************************************************************************)
NextRetry ==
  \/ EventsMount
  \/ EventsConnect
  \/ EventsDisconnect
  \/ EventsTimerFire
  \/ EventsSocketOpen
  \/ EventsSocketClose

SpecRetry == InitEvents /\ [][NextRetry]_vars /\ WF_vars(EventsTimerFire)

\* the latest step created a socket
AttemptMade == last.op \in {"mount", "connect", "timer", "delayed"} /\ last.arg # 0

\* C31: after a socket closed with a code other than 1000 while budget
\* remained and a credential is stored, a new socket is created (by the
\* reconnect timer unless a caller's connect() came first), unless
\* disconnect() is called or the bound on the sockets of a run is reached;
\* and the timer's connect() creates a socket whenever the hook holds no
\* open socket.
C31_AbnormalCloseLeadsToAttempt ==
  /\ (/\ last.op = "close"
      /\ last.arg # NormalClosure
      /\ ~exhausted
      /\ token # 0
      /\ ~stopped)
       ~> (AttemptMade \/ stopped \/ Len(sockets) >= MaxEventSockets)
  /\ [][/\ last'.op = "timer"
        /\ token # 0
        /\ ~(wsRef # 0 /\ sockets[wsRef].rs = "OPEN")
        => last'.arg # 0 /\ Len(sockets') = Len(sockets) + 1]_vars

\* the socket of the mount closed abnormally, and the timer's connect()
\* created the second one
C31_Witness ==
  /\ last.op = "timer"
  /\ last.arg # 0
  /\ reconnectCountRef = 1
  /\ Len(sockets) = 2
  /\ sockets[1].rs = "CLOSED"
  /\ sockets[2].rs = "CONNECTING"
  /\ wsRef = 2
  /\ timers = {}

(***************************************************************************)
(* SpecUnreachable: the hook while the server cannot be reached and no     *)
(* caller invokes connect(): no handshake completes, every socket's        *)
(* connection ends (with an abnormal code, none having been established),  *)
(* and every reconnect timer that is not cleared fires.                    *)
(***************************************************************************)
NextUnreachable ==
  \/ Mount
  \/ Unmount
  \/ Disconnect
  \/ LocalTokenChange
  \/ TimerFire
  \/ SocketClose

SpecUnreachable ==
  Init /\ [][NextUnreachable]_vars /\ WF_vars(TimerFire) /\ WF_vars(SocketClose)

\* the hook holds no socket, every socket it created is closed, and no
\* timer is pending
Quiescent ==
  /\ wsRef = 0
  /\ \A s \in DOMAIN sockets : sockets[s].rs = "CLOSED"
  /\ timers = {}

\* C32: the retry counter stays between 0 and reconnectAttempts; while no
\* connection opens and no caller invokes connect(), the sockets created
\* are the mount's and at most one per counted retry, hence at most
\* reconnectAttempts timer-driven ones; and the hook ends up, for good, with
\* no live socket and no pending timer.
C32_BoundedRetriesThenQuiescent ==
  /\ [](/\ reconnectCountRef \in 0..reconnectAttempts
        /\ Len(sockets) <= 1 + reconnectCountRef)
  /\ <>[]Quiescent

\* budget spent: the mount's socket and reconnectAttempts timer-driven ones
\* all closed abnormally, nothing is pending
C32_Witness ==
  /\ mounted = "mounted"
  /\ token # 0
  /\ last.op = "close"
  /\ last.arg # NormalClosure
  /\ reconnectCountRef = reconnectAttempts
  /\ Len(sockets) = reconnectAttempts + 1
  /\ exhausted
  /\ Quiescent

\* C33: only the open event lowers the retry counter; connect(),
\* disconnect(), unmount and the handling of a credential change leave it as
\* it is; so an abnormal close met with the budget spent schedules nothing,
\* whoever started the connection.
C33_OnlyOpenRestoresBudget ==
  [][/\ reconnectCountRef' < reconnectCountRef
          => last'.op = "open" /\ reconnectCountRef' = 0
     /\ last'.op \in {"connect", "disconnect", "unmount", "storage", "delayed", "setItem"}
          => reconnectCountRef' = reconnectCountRef
     /\ (/\ last'.op = "close"
         /\ last'.arg # NormalClosure
         /\ reconnectCountRef >= reconnectAttempts)
          => /\ timers' = timers
             /\ reconnectCountRef' = reconnectCountRef]_vars

\* the budget was spent, a caller's connect() created one more socket, and
\* it closed abnormally: no timer, the counter still at its maximum
C33_Witness ==
  /\ mounted = "mounted"
  /\ ~stopped
  /\ last.op = "close"
  /\ last.arg # NormalClosure
  /\ exhausted
  /\ reconnectCountRef = reconnectAttempts
  /\ Len(sockets) = reconnectAttempts + 2
  /\ \A s \in DOMAIN sockets : sockets[s].rs = "CLOSED"
  /\ wsRef = 0
  /\ timers = {}

\* C34: the frames of a socket are handled one at a time in the order of
\* their delivery: every toast and every record made so far belongs to a
\* frame older than every frame still waiting, the toasts are in the order
\* of the frames, and of two records the later frame's comes first.
C34_FramesHandledInOrder ==
  /\ \A i, j \in DOMAIN toasts : i < j => toasts[i].eid < toasts[j].eid
  /\ \A i, j \in DOMAIN notifications :
       i < j => notifications[i].data > notifications[j].data
  /\ \A s \in DOMAIN sockets : \A k \in DOMAIN sockets[s].q :
       /\ \A l \in DOMAIN sockets[s].q : k < l => sockets[s].q[k].eid < sockets[s].q[l].eid
       /\ \A i \in DOMAIN toasts : toasts[i].eid < sockets[s].q[k].eid
       /\ \A i \in DOMAIN notifications : notifications[i].data < sockets[s].q[k].eid
       /\ lastMessage # << >> => lastMessage[1].eid < sockets[s].q[k].eid

\* two frames, both alerting and both admitted, have been handled
C34_Witness ==
  /\ last.op = "message"
  /\ last.arg = 2
  /\ Len(toasts) = 2
  /\ toasts[1].eid = 1 /\ toasts[2].eid = 2
  /\ Len(notifications) = 2
  /\ notifications[1].data = 2 /\ notifications[2].data = 1
  /\ unreadCount = 2

\* C35: a session_connected frame handled while showNewSessions is false,
\* and a first check-in (data.is_new) handled while showNewBeacons is false,
\* still invalidate their two caches and show their one toast, while the
\* list and unreadCount stay as they are.
C35_ToastAndInvalidationUngated ==
  [][/\ last'.op = "message"
     /\ Handled.json /\ Handled.hasData
     /\ \/ Handled.type = "session_connected" /\ ~settings.showNewSessions
        \/ Handled.type = "beacon_checkin" /\ Handled.is_new /\ ~settings.showNewBeacons
     => /\ NewKeys = <<Key(IF Handled.type = "session_connected"
                            THEN "sessions" ELSE "beacons", 0),
                        Key("dashboard-stats", 0)>>
        /\ NewToasts = <<[eid |-> last'.arg, variant |-> "default"]>>
        /\ UNCHANGED <<notifications, unreadCount>>]_vars

\* a session_connected frame was handled with showNewSessions off: two
\* invalidations, one toast, an empty list
C35_Witness ==
  /\ last.op = "message"
  /\ lastMessage # << >>
  /\ lastMessage[1].type = "session_connected" /\ lastMessage[1].hasData
  /\ ~settings.showNewSessions
  /\ invalidated = <<Key("sessions", 0), Key("dashboard-stats", 0)>>
  /\ Len(toasts) = 1 /\ toasts[1].eid = last.arg
  /\ notifications = << >>
  /\ unreadCount = 0

\* C36: the error event of a socket changes nothing of the hook (handle,
\* isConnected, retry counter, timers) nor of the socket; the close event
\* that follows it is the step that acts, and it adds at most one timer.
C36_ErrorEventChangesNothing ==
  [][/\ last'.op = "error"
          => UNCHANGED <<wsRef, isConnected, reconnectCountRef, reconnectTimeoutRef,
                         timers, sockets, lastMessage, written>>
     /\ last'.op = "close"
          => /\ Cardinality(timers' \ timers) <= 1
             /\ reconnectCountRef' <= reconnectCountRef + 1]_vars

\* the error event of the connecting socket was handled: the hook still
\* holds the socket, nothing is scheduled or counted
C36_Witness ==
  /\ last.op = "error"
  /\ wsRef # 0
  /\ last.arg = wsRef
  /\ sockets[wsRef].rs = "CONNECTING"
  /\ ~isConnected
  /\ reconnectCountRef = 0
  /\ timers = {}

\* C37: an admitted addNotification call returns to its caller without
\* throwing, whatever becomes of the sound and of the desktop notification,
\* and the inbox holds the new record in front, counted.
C37_EffectFailuresSwallowed ==
  [][last'.op = "add" /\ nextId' # nextId =>
       /\ ~thrown'
       /\ Len(notifications') = Len(notifications) + 1
       /\ notifications'[1].id = nextId
       /\ unreadCount' = unreadCount + 1]_vars

(***************************************************************************)
(* SpecCategories: the callers add records of each of the six categories   *)
(* while the user turns every setting on and off and clears the list.      *)
(***************************************************************************)
CategoriesAdd ==
  \E c \in Categories :
    /\ nextId <= MaxStoreAdds
    /\ addNotification([type |-> c, data |-> 0])
    /\ last' = [op |-> "add", arg |-> c]
    /\ UNCHANGED <<hookRest, eventVars>>

NextCategories ==
  \/ CategoriesAdd
  \/ StoreUpdateSettings
  \/ StoreClearAll

SpecCategories == InitInbox /\ [][NextCategories]_vars

\* C38: addNotification with a candidate of category info, warning or error
\* puts its record, unread, in front of the list and adds 1 to unreadCount
\* under every value of the settings; a candidate of category session,
\* beacon or listener is dropped exactly when its setting is false.
C38_OnlyThreeCategoriesGated ==
  [][last'.op = "add" =>
       IF last'.arg \in {"info", "warning", "error"} \/ settings[Gate(last'.arg)]
       THEN /\ Len(notifications') = Len(notifications) + 1
            /\ notifications'[1] =
                 [id |-> nextId, type |-> last'.arg, read |-> FALSE, data |-> 0]
            /\ \A i \in DOMAIN notifications : notifications'[i + 1] = notifications[i]
            /\ unreadCount' = unreadCount + 1
       ELSE UNCHANGED <<notifications, unreadCount>>]_vars

\* with every setting off, an error record and then a warning record were
\* added
C38_Witness ==
  /\ last.op = "add"
  /\ last.arg = "warning"
  /\ \A k \in DOMAIN settings : ~settings[k]
  /\ Len(notifications) = 2
  /\ notifications[1].type = "warning"
  /\ notifications[2].type = "error"
  /\ unreadCount = 2

====
